---- MODULE Spec2Model ----
(***************************************************************************)
(* A model of jgrep (rust/src/main.rs): one run of the command line tool,  *)
(* from the choice of the input file to the exit code.  Strings are        *)
(* sequences of one-character strings, so that joining, splitting,         *)
(* normalising and regex matching are computed, not assumed.               *)
(***************************************************************************)
EXTENDS Integers, Sequences, FiniteSets

VARIABLES pc, args, env, file, keys, data, key_patterns, value_patterns,
          matches, rel_matches, mi, ri, visited, stdout, stderr, exit_code

vars == <<pc, args, env, file, keys, data, key_patterns, value_patterns,
          matches, rel_matches, mi, ri, visited, stdout, stderr, exit_code>>

----------------------------------------------------------------------------
(* Strings *)

\* The default of --delimiter.
DefaultDelimiter == <<":", ":">>

\* The default of --relative-delimiter.
DefaultRelativeDelimiter == <<".", ".">>

\* str::starts_with at position i (1-based) of s.
StartsWithAt(s, d, i) ==
    /\ i + Len(d) - 1 <= Len(s)
    /\ \A j \in 1..Len(d) : s[i + j - 1] = d[j]

RECURSIVE SplitFrom(_, _, _, _)
\* The pieces of s from position i on, cur being the piece read so far.
SplitFrom(s, d, i, cur) ==
    IF i > Len(s) THEN <<cur>>
    ELSE IF StartsWithAt(s, d, i)
         THEN <<cur>> \o SplitFrom(s, d, i + Len(d), <<>>)
         ELSE SplitFrom(s, d, i + 1, Append(cur, s[i]))

\* str::split with a non-empty separator: "" gives one empty piece.
Split(s, d) == SplitFrom(s, d, 1, <<>>)

RECURSIVE Join(_, _)
\* [String]::join
Join(parts, d) ==
    IF Len(parts) = 0 THEN <<>>
    ELSE IF Len(parts) = 1 THEN parts[1]
    ELSE parts[1] \o d \o Join(Tail(parts), d)

NonEmpty(s) == Len(s) > 0

RECURSIVE TrimEndMatches(_, _)
\* str::trim_end_matches: the separator is removed from the end while it is there.
TrimEndMatches(s, d) ==
    IF Len(d) > 0 /\ Len(s) >= Len(d) /\ StartsWithAt(s, d, Len(s) - Len(d) + 1)
    THEN TrimEndMatches(SubSeq(s, 1, Len(s) - Len(d)), d)
    ELSE s

Digit(n) == CASE n = 0 -> "0" [] n = 1 -> "1" [] n = 2 -> "2" [] n = 3 -> "3"
              [] n = 4 -> "4" [] n = 5 -> "5" [] n = 6 -> "6" [] n = 7 -> "7"
              [] n = 8 -> "8" [] n = 9 -> "9"

RECURSIVE UsizeToString(_)
\* usize::to_string, and the canonical text of a non-negative JSON integer.
UsizeToString(n) ==
    IF n < 10 THEN <<Digit(n)>> ELSE Append(UsizeToString(n \div 10), Digit(n % 10))

IsDigit(c) == c \in {"0", "1", "2", "3", "4", "5", "6", "7", "8", "9"}

DigitVal(c) == CHOOSE n \in 0..9 : Digit(n) = c

RECURSIVE DecimalValue(_)
DecimalValue(s) ==
    IF Len(s) = 0 THEN 0
    ELSE 10 * DecimalValue(SubSeq(s, 1, Len(s) - 1)) + DigitVal(s[Len(s)])

\* usize::from_str: an optional "+" and at least one digit; -1 stands for Err.
\* (No segment of the runs checked holds a "+".)
UsizeFromStr(s) ==
    LET body == IF Len(s) > 0 /\ s[1] = "+" THEN Tail(s) ELSE s
    IN  IF Len(body) > 0 /\ \A i \in 1..Len(body) : IsDigit(body[i])
        THEN DecimalValue(body) ELSE -1

\* The byte of a character, for the order of strings.
CharCode(c) ==
    CASE c = "$" -> 36 [] c = "(" -> 40 [] c = ")" -> 41 [] c = "*" -> 42
      [] c = "+" -> 43 [] c = "-" -> 45 [] c = "." -> 46
      [] c = "0" -> 48 [] c = "1" -> 49 [] c = "2" -> 50 [] c = "3" -> 51
      [] c = "4" -> 52 [] c = "5" -> 53 [] c = "6" -> 54 [] c = "7" -> 55
      [] c = "8" -> 56 [] c = "9" -> 57 [] c = ":" -> 58 [] c = "?" -> 63
      [] c = "A" -> 65 [] c = "B" -> 66 [] c = "S" -> 83 [] c = "[" -> 91
      [] c = "^" -> 94 [] c = "a" -> 97 [] c = "b" -> 98 [] c = "c" -> 99
      [] c = "e" -> 101 [] c = "f" -> 102 [] c = "i" -> 105 [] c = "l" -> 108
      [] c = "n" -> 110 [] c = "r" -> 114 [] c = "s" -> 115 [] c = "t" -> 116
      [] c = "u" -> 117 [] c = "x" -> 120 [] c = "y" -> 121

RECURSIVE StrLess(_, _)
\* The order of String (Ord): byte by byte, a proper prefix first.
StrLess(s, t) ==
    IF Len(t) = 0 THEN FALSE
    ELSE IF Len(s) = 0 THEN TRUE
    ELSE IF s[1] = t[1] THEN StrLess(Tail(s), Tail(t))
    ELSE CharCode(s[1]) < CharCode(t[1])

----------------------------------------------------------------------------
(* JSON values (serde_json::Value) *)

JNull == [t |-> "null", s |-> <<>>, n |-> 0, b |-> FALSE, kids |-> <<>>]
JBool(x) == [t |-> "bool", s |-> <<>>, n |-> 0, b |-> x, kids |-> <<>>]
JNumber(x) == [t |-> "number", s |-> <<>>, n |-> x, b |-> FALSE, kids |-> <<>>]
JString(x) == [t |-> "string", s |-> x, n |-> 0, b |-> FALSE, kids |-> <<>>]
\* An array: its elements, each under an unused key.
JArray(elems) ==
    [t |-> "array", s |-> <<>>, n |-> 0, b |-> FALSE,
     kids |-> [i \in 1..Len(elems) |-> [k |-> <<>>, v |-> elems[i]]]]
\* An object: its fields, [k |-> name, v |-> value], in the order of the map.
JObject(fields) == [t |-> "object", s |-> <<>>, n |-> 0, b |-> FALSE, kids |-> fields]

Field(name, value) == [k |-> name, v |-> value]

\* Value::to_string of a number or a boolean.
ValueToString(v) ==
    IF v.t = "number" THEN UsizeToString(v.n)
    ELSE IF v.b THEN <<"t", "r", "u", "e">> ELSE <<"f", "a", "l", "s", "e">>

RECURSIVE InsertField(_, _)
\* The fields with f put at its place in the order of the keys; an equal key is replaced.
InsertField(fields, f) ==
    IF Len(fields) = 0 THEN <<f>>
    ELSE IF fields[1].k = f.k THEN <<f>> \o Tail(fields)
    ELSE IF StrLess(f.k, fields[1].k) THEN <<f>> \o fields
    ELSE <<fields[1]>> \o InsertField(Tail(fields), f)

RECURSIVE SortedFields(_, _)
SortedFields(fields, acc) ==
    IF Len(fields) = 0 THEN acc
    ELSE SortedFields(Tail(fields), InsertField(acc, fields[1]))

RECURSIVE FromDocument(_)
\* serde_json::from_str into Value: an object is a map ordered by its keys (the
\* tests compare the output with the expected lines sorted by key, which holds of
\* the traversal only with the map in key order, not in the order of the text).
FromDocument(doc) ==
    IF doc.t = "object"
    THEN JObject(SortedFields(
             [i \in 1..Len(doc.kids) |->
                 Field(doc.kids[i].k, FromDocument(doc.kids[i].v))], <<>>))
    ELSE IF doc.t = "array"
    THEN JArray([i \in 1..Len(doc.kids) |-> FromDocument(doc.kids[i].v)])
    ELSE doc

\* Map::get
MapGet(fields, name) ==
    IF \E i \in 1..Len(fields) : fields[i].k = name
    THEN LET i == CHOOSE j \in 1..Len(fields) : fields[j].k = name
         IN  <<fields[i].v>>
    ELSE <<>>

----------------------------------------------------------------------------
(* Regular expressions (the regex crate), over the characters of the model: *)
(* literals, ".", a postfix "*", "^", "$", and the flag group "(?i)" at the  *)
(* start.  "[" opens a class that nothing closes, and "(" a group.           *)

FlagPrefix == <<"(", "?", "i", ")">>

Lower(c) == CASE c = "A" -> "a" [] c = "B" -> "b" [] c = "S" -> "s" [] OTHER -> c

Item(kind, c) == [kind |-> kind, c |-> c, star |-> FALSE]

RECURSIVE Tokens(_, _)
\* The items of a pattern, left to right; an item of kind "error" when the pattern
\* does not parse: an unclosed "[" or "(", a ")" nothing opened, a "*" with nothing
\* to repeat.  ("?" and "+" are outside the patterns of the model.)
Tokens(p, acc) ==
    IF Len(p) = 0 THEN acc
    ELSE LET c == p[1]
         IN  IF c \in {"[", "(", ")", "?", "+"} THEN <<Item("error", c)>>
             ELSE IF c = "*"
             THEN IF Len(acc) = 0 THEN <<Item("error", c)>>
                  ELSE Tokens(Tail(p),
                              [acc EXCEPT ![Len(acc)] = [@ EXCEPT !.star = TRUE]])
             ELSE Tokens(Tail(p),
                         Append(acc, Item(CASE c = "^" -> "bol"
                                            [] c = "$" -> "eol"
                                            [] c = "." -> "any"
                                            [] OTHER -> "chr", c)))

\* Regex::new: [ok, src, ci, toks]; src is what Regex::to_string gives back.
RegexNew(src) ==
    LET ci == Len(src) >= 4 /\ SubSeq(src, 1, 4) = FlagPrefix
        body == IF ci THEN SubSeq(src, 5, Len(src)) ELSE src
        toks == Tokens(body, <<>>)
        ok == \A i \in 1..Len(toks) : toks[i].kind # "error"
    IN  [ok |-> ok, src |-> src, ci |-> ci, toks |-> IF ok THEN toks ELSE <<>>]

RECURSIVE MatchHere(_, _, _, _)
\* Whether the items from t on match s from position i on.
MatchHere(re, t, s, i) ==
    IF t > Len(re.toks) THEN TRUE
    ELSE LET tok == re.toks[t]
             width == IF tok.kind \in {"bol", "eol"} THEN 0 ELSE 1
             one == CASE tok.kind = "bol" -> i = 1
                      [] tok.kind = "eol" -> i = Len(s) + 1
                      [] tok.kind = "any" -> i <= Len(s)
                      [] OTHER -> /\ i <= Len(s)
                                  /\ IF re.ci THEN Lower(s[i]) = Lower(tok.c)
                                     ELSE s[i] = tok.c
         IN  IF tok.star
             THEN \/ MatchHere(re, t + 1, s, i)
                  \/ width = 1 /\ one /\ MatchHere(re, t, s, i + 1)
             ELSE one /\ MatchHere(re, t + 1, s, i + width)

\* Regex::is_match: the pattern is found somewhere in s.
IsMatch(re, s) == \E i \in 1..(Len(s) + 1) : MatchHere(re, 1, s, i)

----------------------------------------------------------------------------
(* The functions of rust/src/main.rs *)

\* A Match: the path and a copy of the value.
Match(key, value) == [key |-> key, value |-> value]

parse_key(key_str, delimiter) == Split(key_str, delimiter)

normalize_key(key, delimiter) == Join(SelectSeq(Split(key, delimiter), NonEmpty), delimiter)

\* What resolve_path writes to standard error when a step fails.
Warning(path, part, delimiter) ==
    [msg |-> "resolve", path |-> Join(path, delimiter), part |-> part]

RECURSIVE resolve_from_stops_at_leaf(_, _, _, _)
\* resolve_from taking a step into a scalar or null as the end of the path.
resolve_from_stops_at_leaf(current, path, i, resolved_path) ==
    IF i > Len(path) \/ current.t \notin {"object", "array"}
    THEN [ok |-> TRUE, value |-> current, path |-> resolved_path, part |-> <<>>]
    ELSE LET part == path[i]
             failed == [ok |-> FALSE, value |-> JNull, path |-> <<>>, part |-> part]
         IN  IF current.t = "object"
             THEN LET got == MapGet(current.kids, part)
                  IN  IF Len(got) = 1
                      THEN resolve_from_stops_at_leaf(got[1], path, i + 1,
                                                      Append(resolved_path, part))
                      ELSE failed
             ELSE LET idx == UsizeFromStr(part)
                  IN  IF idx >= 0 /\ idx < Len(current.kids)
                      THEN resolve_from_stops_at_leaf(current.kids[idx + 1].v, path,
                                                      i + 1, Append(resolved_path, part))
                      ELSE failed

RECURSIVE resolve_from(_, _, _, _)
\* The loop of resolve_path from part i on, current being the node reached:
\* [ok, value, path], and the part that failed when not ok.
resolve_from(current, path, i, resolved_path) ==
    IF i > Len(path)
    THEN [ok |-> TRUE, value |-> current, path |-> resolved_path, part |-> <<>>]
    ELSE LET part == path[i]
             failed == [ok |-> FALSE, value |-> JNull, path |-> <<>>, part |-> part]
         IN  IF current.t = "object"
             THEN LET got == MapGet(current.kids, part)
                  IN  IF Len(got) = 1
                      THEN resolve_from(got[1], path, i + 1, Append(resolved_path, part))
                      ELSE failed
             ELSE IF current.t = "array"
             THEN LET idx == UsizeFromStr(part)
                  IN  IF idx >= 0 /\ idx < Len(current.kids)
                      THEN resolve_from(current.kids[idx + 1].v, path, i + 1,
                                        Append(resolved_path, part))
                      ELSE failed
             ELSE failed

resolve_path(d, path) == resolve_from(d, path, 1, <<>>)

RECURSIVE apply_rel_parts_pop_front(_, _, _)
\* apply_rel_parts with pop_front in the place of pop_back.
apply_rel_parts_pop_front(path_queue, rel_parts, relative_delimiter) ==
    IF Len(rel_parts) = 0 THEN path_queue
    ELSE apply_rel_parts_pop_front(
             IF rel_parts[1] = relative_delimiter
             THEN (IF Len(path_queue) = 0 THEN path_queue ELSE Tail(path_queue))
             ELSE Append(path_queue, rel_parts[1]),
             Tail(rel_parts), relative_delimiter)

RECURSIVE apply_rel_parts_stops_at_root(_, _, _)
\* apply_rel_parts giving up at a pop of the empty list, the later parts unread.
apply_rel_parts_stops_at_root(path_queue, rel_parts, relative_delimiter) ==
    IF Len(rel_parts) = 0 THEN path_queue
    ELSE IF rel_parts[1] = relative_delimiter /\ Len(path_queue) = 0 THEN path_queue
    ELSE apply_rel_parts_stops_at_root(
             IF rel_parts[1] = relative_delimiter
             THEN SubSeq(path_queue, 1, Len(path_queue) - 1)
             ELSE Append(path_queue, rel_parts[1]),
             Tail(rel_parts), relative_delimiter)

RECURSIVE apply_rel_parts(_, _, _)
\* The loop of apply_relative_path over the parts of the relative key.
apply_rel_parts(path_queue, rel_parts, relative_delimiter) ==
    IF Len(rel_parts) = 0 THEN path_queue
    ELSE apply_rel_parts(
             IF rel_parts[1] = relative_delimiter
             THEN (IF Len(path_queue) = 0 THEN path_queue
                   ELSE SubSeq(path_queue, 1, Len(path_queue) - 1))
             ELSE Append(path_queue, rel_parts[1]),
             Tail(rel_parts), relative_delimiter)

apply_relative_path(key, rel_key, delimiter, relative_delimiter) ==
    apply_rel_parts(parse_key(key, delimiter), parse_key(rel_key, delimiter),
                    relative_delimiter)

\* clean_pattern with nothing removed from the pattern text.
clean_pattern_whole(pattern) == pattern.src

\* The pattern text with an enclosing "^" and "$" removed, as search_keys compares it
\* with a field name: strip_prefix('^').and_then(strip_suffix('$')).unwrap_or(whole).
clean_pattern(pattern) ==
    LET pattern_str == pattern.src
    IN  IF Len(pattern_str) >= 2 /\ pattern_str[1] = "^"
           /\ pattern_str[Len(pattern_str)] = "$"
        THEN SubSeq(pattern_str, 2, Len(pattern_str) - 1)
        ELSE pattern_str

\* The condition of search_keys on an object field.
field_matches(pattern, current_prefix, k) ==
    IsMatch(pattern, current_prefix) \/ k = clean_pattern(pattern)

\* The condition of search_keys on an array element.
element_matches(pattern, current_prefix) == IsMatch(pattern, current_prefix)

\* One Match for each pattern that hit, hits[i] telling whether the i-th did.
PatternMatches(hits, key, value) ==
    LET taken == SelectSeq([i \in 1..Len(hits) |-> i], LAMBDA i : hits[i])
    IN  [j \in 1..Len(taken) |-> Match(key, value)]

\* prefix + delimiter + segment, or the segment alone when the prefix is empty.
child_prefix(prefix, delimiter, segment) ==
    IF Len(prefix) = 0 THEN segment ELSE prefix \o delimiter \o segment

RECURSIVE search_keys(_, _, _, _)
RECURSIVE search_keys_kids(_, _, _, _, _)
\* search_keys_kids with the matches of a child put after those below it.
search_keys_kids_children_first(d, i, key_patterns_, delimiter, prefix) ==
    IF i > Len(d.kids) THEN <<>>
    ELSE LET v == d.kids[i].v
             k == d.kids[i].k
             current_prefix ==
                 child_prefix(prefix, delimiter,
                              IF d.t = "object" THEN k ELSE UsizeToString(i - 1))
             hits == [j \in 1..Len(key_patterns_) |->
                         IF d.t = "object"
                         THEN field_matches(key_patterns_[j], current_prefix, k)
                         ELSE element_matches(key_patterns_[j], current_prefix)]
         IN  search_keys(v, key_patterns_, delimiter, current_prefix)
             \o PatternMatches(hits, normalize_key(current_prefix, delimiter), v)
             \o search_keys_kids(d, i + 1, key_patterns_, delimiter, prefix)

\* search_keys_kids not going below a child that matched.
search_keys_kids_stops_at_match(d, i, key_patterns_, delimiter, prefix) ==
    IF i > Len(d.kids) THEN <<>>
    ELSE LET v == d.kids[i].v
             k == d.kids[i].k
             current_prefix ==
                 child_prefix(prefix, delimiter,
                              IF d.t = "object" THEN k ELSE UsizeToString(i - 1))
             hits == [j \in 1..Len(key_patterns_) |->
                         IF d.t = "object"
                         THEN field_matches(key_patterns_[j], current_prefix, k)
                         ELSE element_matches(key_patterns_[j], current_prefix)]
             own == PatternMatches(hits, normalize_key(current_prefix, delimiter), v)
         IN  own
             \o (IF Len(own) > 0 THEN <<>>
                 ELSE search_keys(v, key_patterns_, delimiter, current_prefix))
             \o search_keys_kids(d, i + 1, key_patterns_, delimiter, prefix)

\* The loop of search_keys over the fields of an object or the elements of an
\* array, from the i-th on: the matches of the child, then those below it.
search_keys_kids(d, i, key_patterns_, delimiter, prefix) ==
    IF i > Len(d.kids) THEN <<>>
    ELSE LET v == d.kids[i].v
             k == d.kids[i].k
             current_prefix ==
                 child_prefix(prefix, delimiter,
                              IF d.t = "object" THEN k ELSE UsizeToString(i - 1))
             hits == [j \in 1..Len(key_patterns_) |->
                         IF d.t = "object"
                         THEN field_matches(key_patterns_[j], current_prefix, k)
                         ELSE element_matches(key_patterns_[j], current_prefix)]
         IN  PatternMatches(hits, normalize_key(current_prefix, delimiter), v)
             \o search_keys(v, key_patterns_, delimiter, current_prefix)
             \o search_keys_kids(d, i + 1, key_patterns_, delimiter, prefix)

search_keys(d, key_patterns_, delimiter, prefix) ==
    IF d.t \in {"object", "array"}
    THEN search_keys_kids(d, 1, key_patterns_, delimiter, prefix)
    ELSE <<>>

\* The text a value pattern is tested against at a leaf.
leaf_text(d) == IF d.t = "string" THEN d.s ELSE ValueToString(d)

RECURSIVE search_values(_, _, _, _)
RECURSIVE search_values_kids(_, _, _, _, _)
search_values_kids(d, i, value_patterns_, delimiter, prefix) ==
    IF i > Len(d.kids) THEN <<>>
    ELSE LET new_prefix ==
                 child_prefix(prefix, delimiter,
                              IF d.t = "object" THEN d.kids[i].k
                              ELSE UsizeToString(i - 1))
         IN  search_values(d.kids[i].v, value_patterns_, delimiter, new_prefix)
             \o search_values_kids(d, i + 1, value_patterns_, delimiter, prefix)

search_values(d, value_patterns_, delimiter, prefix) ==
    IF d.t \in {"object", "array"}
    THEN search_values_kids(d, 1, value_patterns_, delimiter, prefix)
    ELSE IF d.t \in {"string", "number", "bool"}
    THEN PatternMatches(
             [j \in 1..Len(value_patterns_) |-> IsMatch(value_patterns_[j], leaf_text(d))],
             normalize_key(TrimEndMatches(prefix, delimiter), delimiter), d)
    ELSE <<>>

\* full_source without the "$" at the end.
full_source_open_end(p, ignore_case) ==
    (IF ignore_case THEN FlagPrefix ELSE <<>>) \o <<"^">> \o p

\* The source text process_json hands to Regex::new for a full pattern.
full_source(p, ignore_case) ==
    (IF ignore_case THEN FlagPrefix ELSE <<>>) \o <<"^">> \o p \o <<"$">>

\* The source text process_json hands to Regex::new for an extended pattern.
extended_source(p, ignore_case) == (IF ignore_case THEN FlagPrefix ELSE <<>>) \o p

\* The patterns of process_json: the full ones, then the extended ones.
compile_patterns(full, extended, ignore_case) ==
    [i \in 1..Len(full) |-> RegexNew(full_source(full[i], ignore_case))]
    \o [i \in 1..Len(extended) |-> RegexNew(extended_source(extended[i], ignore_case))]

AllOk(patterns) == \A i \in 1..Len(patterns) : patterns[i].ok

RECURSIVE NodeCount(_)
RECURSIVE KidsCount(_, _)
KidsCount(d, i) ==
    IF i > Len(d.kids) THEN 0 ELSE NodeCount(d.kids[i].v) + KidsCount(d, i + 1)

\* The nodes a search visits: every node of the tree.
NodeCount(d) == 1 + KidsCount(d, 1)

----------------------------------------------------------------------------
(* The run: main and process_json, step by step *)

None == <<>>
Some(x) == <<x>>

Stdin == <<"-">>

Line(kind, n, key, value) == [kind |-> kind, n |-> n, key |-> key, value |-> value]

Message(msg) == [msg |-> msg, path |-> <<>>, part |-> <<>>]

\* process::exit(code): nothing more is written.
Exit(code) == pc' = "exit" /\ exit_code' = code

\* main, lines 514-534: which input is read, and whether the first argument is a key.
SelectFile ==
    /\ pc = "main"
    /\ IF Len(args.file) = 1 /\ env.is_file
       THEN /\ file' = args.file
            /\ keys' = args.keys \o args.key
            /\ pc' = "check_patterns"
            /\ UNCHANGED <<stderr, exit_code>>
       ELSE IF (args.file = None \/ args.file = Some(Stdin)) /\ env.has_stdin
       THEN /\ file' = Some(Stdin)
            /\ keys' = args.keys \o args.key
            /\ pc' = "check_patterns"
            /\ UNCHANGED <<stderr, exit_code>>
       ELSE IF Len(args.file) = 1 /\ env.has_stdin
       THEN /\ file' = Some(Stdin)
            /\ keys' = <<args.file[1]>> \o args.keys \o args.key
            /\ pc' = "check_patterns"
            /\ UNCHANGED <<stderr, exit_code>>
       ELSE /\ stderr' = Append(stderr, Message(IF Len(args.file) = 1
                                                THEN "invalid_file" ELSE "no_file"))
            /\ Exit(1)
            /\ UNCHANGED <<file, keys>>
    /\ UNCHANGED <<args, env, data, key_patterns, value_patterns, matches,
                   rel_matches, mi, ri, visited, stdout>>

\* CheckPatterns looking at the full patterns only.
CheckPatternsFullOnly ==
    /\ pc = "check_patterns"
    /\ IF Len(keys) = 0 /\ Len(args.value) = 0
       THEN /\ stderr' = Append(stderr, Message("no_pattern"))
            /\ Exit(1)
       ELSE /\ pc' = "load_json"
            /\ UNCHANGED <<stderr, exit_code>>
    /\ UNCHANGED <<args, env, file, keys, data, key_patterns, value_patterns,
                   matches, rel_matches, mi, ri, visited, stdout>>

\* main, lines 536-540: at least one pattern is needed.
CheckPatterns ==
    /\ pc = "check_patterns"
    /\ IF Len(keys) = 0 /\ Len(args.extended_keys) = 0
          /\ Len(args.value) = 0 /\ Len(args.extended_values) = 0
       THEN /\ stderr' = Append(stderr, Message("no_pattern"))
            /\ Exit(1)
       ELSE /\ pc' = "load_json"
            /\ UNCHANGED <<stderr, exit_code>>
    /\ UNCHANGED <<args, env, file, keys, data, key_patterns, value_patterns,
                   matches, rel_matches, mi, ri, visited, stdout>>

\* load_json, called at line 430: the file or standard input is read and parsed.
LoadJson ==
    /\ pc = "load_json"
    /\ IF ~env.readable
       THEN Exit(1) /\ UNCHANGED <<data, stderr>>
       ELSE IF ~env.content.valid
       THEN /\ stderr' = Append(stderr, Message("invalid_json"))
            /\ Exit(1)
            /\ UNCHANGED data
       ELSE /\ data' = FromDocument(env.content.doc)
            /\ pc' = "compile_keys"
            /\ UNCHANGED <<stderr, exit_code>>
    /\ UNCHANGED <<args, env, file, keys, key_patterns, value_patterns, matches,
                   rel_matches, mi, ri, visited, stdout>>

\* CompileKeyPatterns going on to the search with a pattern that did not compile.
CompileKeyPatternsUnchecked ==
    /\ pc = "compile_keys"
    /\ IF Len(keys) = 0 /\ Len(args.extended_keys) = 0
       THEN pc' = "compile_values" /\ UNCHANGED <<key_patterns, exit_code>>
       ELSE /\ key_patterns' = compile_patterns(keys, args.extended_keys, args.ignore_case)
            /\ pc' = "search_keys"
            /\ UNCHANGED exit_code
    /\ UNCHANGED <<args, env, file, keys, data, value_patterns, matches,
                   rel_matches, mi, ri, visited, stdout, stderr>>

\* process_json, lines 433-450: the key patterns are compiled; the first error ends
\* the run.
CompileKeyPatterns ==
    /\ pc = "compile_keys"
    /\ IF Len(keys) = 0 /\ Len(args.extended_keys) = 0
       THEN pc' = "compile_values" /\ UNCHANGED <<key_patterns, exit_code>>
       ELSE LET compiled == compile_patterns(keys, args.extended_keys, args.ignore_case)
            IN  IF AllOk(compiled)
                THEN /\ key_patterns' = compiled
                     /\ pc' = "search_keys"
                     /\ UNCHANGED exit_code
                ELSE Exit(1) /\ UNCHANGED key_patterns
    /\ UNCHANGED <<args, env, file, keys, data, value_patterns, matches,
                   rel_matches, mi, ri, visited, stdout, stderr>>

\* process_json, line 451.
SearchKeys ==
    /\ pc = "search_keys"
    /\ matches' = matches \o search_keys(data, key_patterns, args.delimiter, <<>>)
    /\ visited' = visited + NodeCount(data)
    /\ pc' = "compile_values"
    /\ UNCHANGED <<args, env, file, keys, data, key_patterns, value_patterns,
                   rel_matches, mi, ri, stdout, stderr, exit_code>>

\* process_json, lines 454-471.
CompileValuePatterns ==
    /\ pc = "compile_values"
    /\ IF Len(args.value) = 0 /\ Len(args.extended_values) = 0
       THEN pc' = "relative" /\ UNCHANGED <<value_patterns, exit_code>>
       ELSE LET compiled ==
                    compile_patterns(args.value, args.extended_values, args.ignore_case)
            IN  IF AllOk(compiled)
                THEN /\ value_patterns' = compiled
                     /\ pc' = "search_values"
                     /\ UNCHANGED exit_code
                ELSE Exit(1) /\ UNCHANGED value_patterns
    /\ UNCHANGED <<args, env, file, keys, data, key_patterns, matches,
                   rel_matches, mi, ri, visited, stdout, stderr>>

\* SearchValues putting the matches of the values before those of the keys.
SearchValuesFirst ==
    /\ pc = "search_values"
    /\ matches' = search_values(data, value_patterns, args.delimiter, <<>>) \o matches
    /\ visited' = visited + NodeCount(data)
    /\ pc' = "relative"
    /\ UNCHANGED <<args, env, file, keys, data, key_patterns, value_patterns,
                   rel_matches, mi, ri, stdout, stderr, exit_code>>

\* process_json, line 472.
SearchValues ==
    /\ pc = "search_values"
    /\ matches' = matches \o search_values(data, value_patterns, args.delimiter, <<>>)
    /\ visited' = visited + NodeCount(data)
    /\ pc' = "relative"
    /\ UNCHANGED <<args, env, file, keys, data, key_patterns, value_patterns,
                   rel_matches, mi, ri, stdout, stderr, exit_code>>

\* process_json, line 475: without relative keys the matches stand.
NoRelativeKeys ==
    /\ pc = "relative"
    /\ Len(args.relative_key) = 0
    /\ pc' = "output"
    /\ UNCHANGED <<args, env, file, keys, data, key_patterns, value_patterns,
                   matches, rel_matches, mi, ri, visited, stdout, stderr, exit_code>>

\* apply_relative_keys, lines 274-289: one turn of the inner loop, for match mi and
\* relative key ri.
RelativePair ==
    /\ pc = "relative"
    /\ Len(args.relative_key) > 0
    /\ mi <= Len(matches)
    /\ LET new_path == apply_relative_path(matches[mi].key, args.relative_key[ri],
                                           args.delimiter, args.relative_delimiter)
           r == resolve_path(data, new_path)
       IN  IF r.ok
           THEN /\ rel_matches' =
                       Append(rel_matches, Match(Join(r.path, args.delimiter), r.value))
                /\ UNCHANGED stderr
           ELSE /\ stderr' = Append(stderr, Warning(new_path, r.part, args.delimiter))
                /\ UNCHANGED rel_matches
    /\ IF ri < Len(args.relative_key)
       THEN ri' = ri + 1 /\ UNCHANGED mi
       ELSE ri' = 1 /\ mi' = mi + 1
    /\ UNCHANGED <<pc, args, env, file, keys, data, key_patterns, value_patterns,
                   matches, visited, stdout, exit_code>>

\* RelativeDone adding the resolved matches to the matches.
RelativeDoneExtends ==
    /\ pc = "relative"
    /\ Len(args.relative_key) > 0
    /\ mi > Len(matches)
    /\ matches' = matches \o rel_matches
    /\ pc' = "output"
    /\ UNCHANGED <<args, env, file, keys, data, key_patterns, value_patterns,
                   rel_matches, mi, ri, visited, stdout, stderr, exit_code>>

\* process_json, line 476: the resolved matches take the place of the matches.
RelativeDone ==
    /\ pc = "relative"
    /\ Len(args.relative_key) > 0
    /\ mi > Len(matches)
    /\ matches' = rel_matches
    /\ pc' = "output"
    /\ UNCHANGED <<args, env, file, keys, data, key_patterns, value_patterns,
                   rel_matches, mi, ri, visited, stdout, stderr, exit_code>>

\* main, lines 557-574: the count or the matches are printed, and the run ends.
Output ==
    /\ pc = "output"
    /\ stdout' =
           IF args.count THEN <<Line("count", Len(matches), <<>>, JNull)>>
           ELSE [i \in 1..Len(matches) |->
                    Line("match", 0, normalize_key(matches[i].key, args.delimiter),
                         matches[i].value)]
    /\ Exit(0)
    /\ UNCHANGED <<args, env, file, keys, data, key_patterns, value_patterns,
                   matches, rel_matches, mi, ri, visited, stderr>>

Next ==
    \/ SelectFile
    \/ CheckPatterns
    \/ LoadJson
    \/ CompileKeyPatterns
    \/ SearchKeys
    \/ CompileValuePatterns
    \/ SearchValues
    \/ NoRelativeKeys
    \/ RelativePair
    \/ RelativeDone
    \/ Output

----------------------------------------------------------------------------
(* The inputs of the runs that are checked *)

\* How many objects or arrays are put around a base document.
MaxNest == 2

\* How many pop tokens a relative key of the model starts with.
MaxPops == 2

Leaves == {JString(<<"a", "b">>), JNumber(0), JNull}

\* {"b": "aB", "a": {"ab": "a", "b": 10}, "ab": [{"a": "ab"}, {"a": true}]}
Example ==
    JObject(<<Field(<<"b">>, JString(<<"a", "B">>)),
              Field(<<"a">>, JObject(<<Field(<<"a", "b">>, JString(<<"a">>)),
                                       Field(<<"b">>, JNumber(10))>>)),
              Field(<<"a", "b">>,
                    JArray(<<JObject(<<Field(<<"a">>, JString(<<"a", "b">>))>>),
                             JObject(<<Field(<<"a">>, JBool(TRUE))>>)>>))>>)

\* {"0": "a", "": {"b": "ab", "": 0}, "a::b": null}
Edge ==
    JObject(<<Field(<<"0">>, JString(<<"a">>)),
              Field(<<>>, JObject(<<Field(<<"b">>, JString(<<"a", "b">>)),
                                    Field(<<>>, JNumber(0))>>)),
              Field(<<"a", ":", ":", "b">>, JNull)>>)

\* {"a": {":": "ab"}}: a field whose name is one character of the delimiter.
Colon == JObject(<<Field(<<"a">>, JObject(<<Field(<<":">>, JString(<<"a", "b">>))>>))>>)

BaseDocuments ==
    Leaves \cup {Example, Edge, Colon, JArray(<<JString(<<"A", "B">>), JNumber(0)>>)}

\* One more level around a document: a field "a", a field "b" beside a field "a",
\* a field with the empty name, or an array.
Wrapped(docs) ==
    {JObject(<<Field(<<"a">>, d)>>) : d \in docs}
    \cup {JObject(<<Field(<<>>, d)>>) : d \in docs}
    \cup {JArray(<<d>>) : d \in docs}

RECURSIVE Nested(_)
Nested(n) == IF n = 0 THEN BaseDocuments ELSE BaseDocuments \cup Wrapped(Nested(n - 1))

Documents == Nested(MaxNest)

\* The documents of the runs with relative keys: at most one level around a base one.
RelativeDocuments == Nested(1)

KeyTexts ==
    {<<"a">>, <<"A">>, <<"a", "b">>, <<"b">>, <<"0">>, <<>>,
     <<"a", ".", "*">>, <<".", "*", "b">>, <<"a", ":", ":", "b">>,
     <<"^", "b", "$">>, <<"[">>}

ValueTexts ==
    {<<"a", "b">>, <<"A", "B">>, <<"a">>, <<"0">>, <<"a", ".", "*">>,
     <<"t", "r", "u", "e">>, <<"[">>}

\* The literal segments of the relative keys.
Segments == {<<"a">>, <<"b">>, <<"a", "b">>, <<"0">>, <<"1">>, <<>>}

Pops(k) == [i \in 1..k |-> DefaultRelativeDelimiter]

\* k pops and then nothing or one segment, a segment and then one pop, and "..b",
\* one chunk with the relative delimiter in it.
RelativeTexts ==
    {Join(Pops(k) \o tail, DefaultDelimiter) :
        k \in 0..MaxPops, tail \in {<<>>} \cup {<<seg>> : seg \in Segments}}
    \cup {Join(<<seg, DefaultRelativeDelimiter>>, DefaultDelimiter) : seg \in Segments}
    \cup {DefaultRelativeDelimiter \o <<"b">>}

NoArgs ==
    [file |-> Some(<<"f">>), keys |-> <<>>, key |-> <<>>, value |-> <<>>,
     relative_key |-> <<>>, relative_delimiter |-> DefaultRelativeDelimiter,
     ignore_case |-> FALSE, extended_keys |-> <<>>, extended_values |-> <<>>,
     delimiter |-> DefaultDelimiter, count |-> FALSE]

FileOf(doc) ==
    [is_file |-> TRUE, has_stdin |-> FALSE, readable |-> TRUE,
     content |-> [valid |-> TRUE, doc |-> doc]]

\* One key pattern, full or extended, with or without --ignore-case.
KeyInit ==
    \E p \in KeyTexts, full \in BOOLEAN, ic \in BOOLEAN, d \in Documents :
        /\ args = [NoArgs EXCEPT !.keys = IF full THEN <<p>> ELSE <<>>,
                                 !.extended_keys = IF full THEN <<>> ELSE <<p>>,
                                 !.ignore_case = ic]
        /\ env = FileOf(d)

\* One value pattern, full or extended, with or without --ignore-case.
ValueInit ==
    \E p \in ValueTexts, full \in BOOLEAN, ic \in BOOLEAN, d \in Documents :
        /\ args = [NoArgs EXCEPT !.value = IF full THEN <<p>> ELSE <<>>,
                                 !.extended_values = IF full THEN <<>> ELSE <<p>>,
                                 !.ignore_case = ic]
        /\ env = FileOf(d)

\* The searches whose matches the relative keys start from.
RelativeSearches ==
    {[NoArgs EXCEPT !.keys = <<<<"a">>>>],
     [NoArgs EXCEPT !.extended_keys = <<<<"b">>>>],
     [NoArgs EXCEPT !.keys = <<<<".", "*">>>>],
     [NoArgs EXCEPT !.extended_values = <<<<>>>>],
     [NoArgs EXCEPT !.keys = <<<<"0">>>>, !.value = <<<<"a", "b">>>>]}

\* A search and one relative key, or two of a few.
RelativeInit ==
    \E a \in RelativeSearches, d \in RelativeDocuments :
        /\ \/ \E r \in RelativeTexts : args = [a EXCEPT !.relative_key = <<r>>]
           \/ \E r1 \in {DefaultRelativeDelimiter, <<"a">>, <<>>},
                 r2 \in {DefaultRelativeDelimiter, <<"b">>, <<"0">>} :
                 args = [a EXCEPT !.relative_key = <<r1, r2>>]
        /\ env = FileOf(d)

\* Several patterns at once, of the four kinds, some satisfied at the same node.
SeveralInit ==
    \E ks \in {<<>>, <<<<"a">>>>, <<<<"a">>, <<"a", ".", "*">>>>, <<<<"b">>, <<"a">>>>},
       eks \in {<<>>, <<<<"a">>>>, <<<<>>>>},
       vs \in {<<>>, <<<<"a", "b">>>>, <<<<"a", ".", "*">>, <<"a", "b">>>>},
       evs \in {<<>>, <<<<"a">>>>},
       d \in RelativeDocuments :
        /\ args = [NoArgs EXCEPT !.keys = ks, !.extended_keys = eks, !.value = vs,
                                 !.extended_values = evs]
        /\ env = FileOf(d)

PatternLists == {<<>>, <<<<"a">>>>, <<<<"b">>, <<"[">>>>}

\* The ways a run starts and ends: the file argument, the terminal, the input, the
\* four pattern lists (some with a pattern that is no regex), --key, --count.
MainInit ==
    \E f \in {None, Some(Stdin), Some(<<"f">>)},
       ks \in PatternLists, k \in {<<>>, <<<<"b">>>>}, vs \in PatternLists,
       eks \in {<<>>, <<<<"[">>>>}, evs \in {<<>>, <<<<"[">>>>, <<<<"a">>>>},
       c \in BOOLEAN, isf \in BOOLEAN, sin \in BOOLEAN,
       io \in {<<TRUE, TRUE>>, <<FALSE, TRUE>>, <<TRUE, FALSE>>} :
        /\ args = [NoArgs EXCEPT !.file = f, !.keys = ks, !.key = k, !.value = vs,
                                 !.extended_keys = eks, !.extended_values = evs,
                                 !.count = c]
        /\ env = [is_file |-> isf, has_stdin |-> sin, readable |-> io[1],
                  content |-> [valid |-> io[2], doc |-> Example]]

Init ==
    /\ KeyInit \/ ValueInit \/ RelativeInit \/ SeveralInit \/ MainInit
    /\ pc = "main"
    /\ file = None
    /\ keys = <<>>
    /\ data = JNull
    /\ key_patterns = <<>>
    /\ value_patterns = <<>>
    /\ matches = <<>>
    /\ rel_matches = <<>>
    /\ mi = 1
    /\ ri = 1
    /\ visited = 0
    /\ stdout = <<>>
    /\ stderr = <<>>
    /\ exit_code = -1

Spec == Init /\ [][Next]_vars

----------------------------------------------------------------------------
(* What the claims speak of *)

\* The run ended through the output, with exit code 0.
Finished == pc = "exit" /\ exit_code = 0

RECURSIVE NodesUnder(_, _, _, _)
RECURSIVE KidNodes(_, _, _, _, _)
\* The fields and elements below d, parent before child and in the order of the
\* map: the segments from the root, the candidate path, whether it is an object
\* field, and the value.
KidNodes(d, i, segs, path, delimiter) ==
    IF i > Len(d.kids) THEN <<>>
    ELSE LET seg == IF d.t = "object" THEN d.kids[i].k ELSE UsizeToString(i - 1)
             here == Append(segs, seg)
             cand == IF Len(path) = 0 THEN seg ELSE path \o delimiter \o seg
         IN  <<[segs |-> here, path |-> cand, field |-> d.t = "object",
                value |-> d.kids[i].v]>>
             \o NodesUnder(d.kids[i].v, here, cand, delimiter)
             \o KidNodes(d, i + 1, segs, path, delimiter)

NodesUnder(d, segs, path, delimiter) ==
    IF d.t \in {"object", "array"} THEN KidNodes(d, 1, segs, path, delimiter) ELSE <<>>

Nodes == NodesUnder(data, <<>>, <<>>, args.delimiter)

Last(s) == s[Len(s)]

\* One match for each of the nodes, in their order.
MatchesOf(nodes) ==
    [i \in 1..Len(nodes) |->
        Match(normalize_key(nodes[i].path, args.delimiter), nodes[i].value)]

RECURSIVE IsSubsequence(_, _)
\* a is b with some members left out.
IsSubsequence(a, b) ==
    IF Len(a) = 0 THEN TRUE
    ELSE IF Len(b) = 0 THEN FALSE
    ELSE IF a[1] = b[1] THEN IsSubsequence(Tail(a), Tail(b))
    ELSE IsSubsequence(a, Tail(b))

\* A text without a character that means something in a regex.
Literal(f) ==
    \A i \in 1..Len(f) : f[i] \notin {".", "*", "^", "$", "[", "(", ")", "?", "+"}

Contains(s, d) == \E i \in 1..Len(s) : StartsWithAt(s, d, i)

\* The run is a key search with the one full pattern keys[1] and nothing else.
OneFullKey ==
    /\ Len(keys) = 1 /\ Len(args.extended_keys) = 0
    /\ Len(args.value) = 0 /\ Len(args.extended_values) = 0
    /\ Len(args.relative_key) = 0

\* The run is a key search with the one extended pattern and nothing else.
OneExtendedKey ==
    /\ Len(keys) = 0 /\ Len(args.extended_keys) = 1
    /\ Len(args.value) = 0 /\ Len(args.extended_values) = 0
    /\ Len(args.relative_key) = 0

\* The pattern text p, anchored at both ends, matches the whole of s.
MatchesWhole(p, s) ==
    IsMatch([RegexNew(<<"^">> \o p \o <<"$">>) EXCEPT !.ci = args.ignore_case], s)

\* The pattern text p is found somewhere in s.
FoundIn(p, s) == IsMatch([RegexNew(p) EXCEPT !.ci = args.ignore_case], s)

----------------------------------------------------------------------------
(* C1 *)

----------------------------------------------------------------------------
(* C2 *)

\* C2: a full key pattern gives a match at an object field only when the whole
\* candidate path matches the anchored pattern or the field name is the pattern
\* text (at an array element: only when the path matches), and gives one wherever
\* the whole path matches; so a pattern that matches only a proper part of a path
\* gives no match there.
C2_FullPatternWholePath ==
    (Finished /\ OneFullKey) =>
        LET p == keys[1]
            whole(n) == MatchesWhole(p, n.path)
            named(n) == n.field /\ Last(n.segs) = p
        IN  /\ IsSubsequence(matches,
                             MatchesOf(SelectSeq(Nodes, LAMBDA n : whole(n) \/ named(n))))
            /\ IsSubsequence(MatchesOf(SelectSeq(Nodes, whole)), matches)

\* A finished search whose pattern is found in a proper part of the path of a node
\* that gave no match, while another node, two levels down, matched as a whole path.
C2_Witness ==
    /\ Finished /\ OneFullKey /\ ~Literal(keys[1])
    /\ \E i \in 1..Len(Nodes) :
           /\ FoundIn(keys[1], Nodes[i].path)
           /\ ~MatchesWhole(keys[1], Nodes[i].path)
           /\ \A j \in 1..Len(matches) :
                  matches[j].key # normalize_key(Nodes[i].path, args.delimiter)
    /\ \E j \in 1..Len(matches) : Len(Split(matches[j].key, args.delimiter)) >= 2

----------------------------------------------------------------------------
(* C3 *)

\* C3, as stated: an extended key pattern gives a match at a node exactly when the
\* pattern is found in the candidate path of the node.
C3_ExtendedOnlyWhenFound ==
    (Finished /\ OneExtendedKey) =>
        matches = MatchesOf(SelectSeq(Nodes,
                                      LAMBDA n : FoundIn(args.extended_keys[1], n.path)))

----------------------------------------------------------------------------
(* C4 *)

Upper(c) == CASE c = "a" -> "A" [] c = "b" -> "B" [] c = "s" -> "S" [] OTHER -> c

RECURSIVE NoUpperCase(_)
\* No field name and no string of d holds an upper-case letter.
NoUpperCase(d) ==
    /\ \A i \in 1..Len(d.s) : Lower(d.s[i]) = d.s[i]
    /\ \A i \in 1..Len(d.kids) :
           /\ \A j \in 1..Len(d.kids[i].k) : Lower(d.kids[i].k[j]) = d.kids[i].k[j]
           /\ NoUpperCase(d.kids[i].v)

\* The matches of the search with the same lists in lower case and no --ignore-case.
LowerCaseMatches ==
    LET low(list) == [i \in 1..Len(list) |-> [j \in 1..Len(list[i]) |-> Lower(list[i][j])]]
        kp == compile_patterns(low(keys), low(args.extended_keys), FALSE)
        vp == compile_patterns(low(args.value), low(args.extended_values), FALSE)
    IN  (IF Len(kp) > 0 THEN search_keys(data, kp, args.delimiter, <<>>) ELSE <<>>)
        \o (IF Len(vp) > 0 THEN search_values(data, vp, args.delimiter, <<>>) ELSE <<>>)

\* The run has one pattern, of whichever kind, which is a name or text in upper case.
OneUpperCasePattern ==
    /\ Len(args.relative_key) = 0
    /\ Len(keys) + Len(args.extended_keys) + Len(args.value)
           + Len(args.extended_values) = 1
    /\ LET p == (keys \o args.extended_keys \o args.value \o args.extended_values)[1]
       IN  /\ Literal(p) /\ ~Contains(p, args.delimiter)
           /\ \E i \in 1..Len(p) : Lower(p[i]) # p[i]

\* C4, as stated: over a document in lower case, a pattern in upper case, of any of
\* the four kinds, gives with --ignore-case the matches its lower-case form gives
\* without, and gives none without --ignore-case.
C4_IgnoreCaseSameMatches ==
    (Finished /\ OneUpperCasePattern /\ NoUpperCase(data)) =>
        IF args.ignore_case THEN matches = LowerCaseMatches ELSE matches = <<>>

----------------------------------------------------------------------------
(* The relative keys *)

\* The matches of the traversal, before the relative keys are applied.
OriginalMatches ==
    (IF Len(key_patterns) > 0
     THEN search_keys(data, key_patterns, args.delimiter, <<>>) ELSE <<>>)
    \o (IF Len(value_patterns) > 0
        THEN search_values(data, value_patterns, args.delimiter, <<>>) ELSE <<>>)

\* What one pair gives: the resolved match, or nothing.
PairMatches(m, r) ==
    LET res == resolve_path(data, apply_relative_path(m.key, r, args.delimiter,
                                                      args.relative_delimiter))
    IN  IF res.ok THEN <<Match(Join(res.path, args.delimiter), res.value)>> ELSE <<>>

RECURSIVE ResolvedFrom(_, _, _)
\* The resolved matches of the pairs from the p-th on, the pairs counted match by
\* match and, for one match, relative key by relative key.
ResolvedFrom(ms, rels, p) ==
    IF p > Len(ms) * Len(rels) THEN <<>>
    ELSE PairMatches(ms[((p - 1) \div Len(rels)) + 1], rels[((p - 1) % Len(rels)) + 1])
         \o ResolvedFrom(ms, rels, p + 1)

\* A pair is about to be resolved.
AtPair == pc = "relative" /\ Len(args.relative_key) > 0 /\ mi <= Len(matches)

\* The segments of a match path: none for the empty path.
SegmentsOf(key) == IF Len(key) = 0 THEN <<>> ELSE Split(key, args.delimiter)

\* The step resolves the segment list directly: its match is added, or its
\* diagnostic written.
ResolvesAs(list) ==
    LET direct == resolve_path(data, list)
    IN  IF direct.ok
        THEN /\ rel_matches' = Append(rel_matches,
                                      Match(Join(direct.path, args.delimiter), direct.value))
             /\ stderr' = stderr
        ELSE /\ rel_matches' = rel_matches
             /\ stderr' = Append(stderr, Warning(list, direct.part, args.delimiter))

Max(a, b) == IF a >= b THEN a ELSE b

RECURSIVE Follow(_, _)
\* The node the segments lead to from d: a field by its name, an element by its
\* index in decimal; not ok at a field that is missing, an index that is no number
\* or too large, or a step into a scalar or null.
Follow(d, segs) ==
    IF Len(segs) = 0 THEN [ok |-> TRUE, value |-> d]
    ELSE IF d.t = "object" /\ \E i \in 1..Len(d.kids) : d.kids[i].k = segs[1]
    THEN Follow(d.kids[CHOOSE i \in 1..Len(d.kids) : d.kids[i].k = segs[1]].v, Tail(segs))
    ELSE IF /\ d.t = "array" /\ Len(segs[1]) > 0
            /\ \A i \in 1..Len(segs[1]) : IsDigit(segs[1][i])
            /\ DecimalValue(segs[1]) < Len(d.kids)
    THEN Follow(d.kids[DecimalValue(segs[1]) + 1].v, Tail(segs))
    ELSE [ok |-> FALSE, value |-> JNull]

----------------------------------------------------------------------------
(* C5 *)

\* C5: with relative keys, the final matches are the resolved matches of the pairs
\* (match, relative key) that resolve, by match first and relative key second, and
\* nothing of the traversal's own matches.
C5_ResolvedReplaceOriginal ==
    (Finished /\ Len(args.relative_key) > 0) =>
        matches = ResolvedFrom(OriginalMatches, args.relative_key, 1)

\* A finished run with two relative keys and several matches, where some pairs
\* resolved and some did not, and the result is not the traversal's matches.
C5_Witness ==
    /\ Finished /\ Len(args.relative_key) = 2
    /\ Len(OriginalMatches) >= 2
    /\ Len(matches) >= 2 /\ Len(stderr) >= 1
    /\ matches # OriginalMatches

----------------------------------------------------------------------------
(* C6 *)

\* C6, as stated: a relative key that pushes a segment and pops it gives back every
\* match of the traversal, with its path and its value.
C6_RoundTrip ==
    (/\ Finished /\ Len(args.relative_key) = 1
     /\ \E seg \in Segments :
            /\ Len(seg) > 0
            /\ args.relative_key[1] =
                   Join(<<seg, args.relative_delimiter>>, args.delimiter)) =>
        matches = OriginalMatches

----------------------------------------------------------------------------
(* C7 *)

\* C7: for a match path of N > 0 segments, the relative key "pop, then S" is
\* resolved as the path of the first N - 1 segments and then S is: the same match,
\* or the same failure.
C7_SiblingLaw ==
    [][\A seg \in Segments :
          (/\ AtPair
           /\ Len(matches[mi].key) > 0
           /\ args.relative_key[ri] =
                  Join(<<args.relative_delimiter, seg>>, args.delimiter)) =>
              LET segs == SegmentsOf(matches[mi].key)
              IN  ResolvesAs(SubSeq(segs, 1, Len(segs) - 1) \o <<seg>>)]_vars

\* A pair "pop, then b" was resolved from a path of two or more segments to its
\* sibling b, another node.
C7_Witness ==
    /\ pc = "relative" /\ mi > 1
    /\ args.relative_key = <<Join(<<args.relative_delimiter, <<"b">>>>, args.delimiter)>>
    /\ Len(SegmentsOf(matches[mi - 1].key)) >= 2
    /\ Len(rel_matches) > 0
    /\ Len(SegmentsOf(rel_matches[Len(rel_matches)].key))
           = Len(SegmentsOf(matches[mi - 1].key))
    /\ rel_matches[Len(rel_matches)].key # matches[mi - 1].key

----------------------------------------------------------------------------
(* C8 *)

\* C8: k pops leave the first max(0, n - k) of the n segments of the match path,
\* whatever k is; a segment after the pops is still pushed; the pair is resolved
\* from that list and the run goes on.
C8_PopPastRoot ==
    [][\A k \in 1..MaxPops, tail \in {<<>>} \cup {<<seg>> : seg \in Segments} :
          (/\ AtPair
           /\ args.relative_key[ri] = Join(Pops(k) \o tail, args.delimiter)) =>
              LET segs == SegmentsOf(matches[mi].key)
              IN  /\ ResolvesAs(SubSeq(segs, 1, Max(0, Len(segs) - k)) \o tail)
                  /\ pc' = "relative"
                  /\ exit_code' = exit_code]_vars

\* More pops than the path has segments were resolved, to the root.
C8_Witness ==
    /\ pc = "relative" /\ mi > 1
    /\ args.relative_key = <<Join(Pops(MaxPops), args.delimiter)>>
    /\ Len(SegmentsOf(matches[mi - 1].key)) = 1
    /\ Len(rel_matches) > 0
    /\ rel_matches[Len(rel_matches)] = Match(<<>>, data)

----------------------------------------------------------------------------
(* C9 *)

\* C9: a pair fails exactly when its segment list does not lead to a node; a
\* failure writes one diagnostic and adds no match; the matches collected stay,
\* the next pair is taken, and after the last pair the run ends with exit code 0.
C9_FailureDropsPair ==
    [][/\ AtPair =>
              LET list == apply_relative_path(matches[mi].key, args.relative_key[ri],
                                              args.delimiter, args.relative_delimiter)
                  to == Follow(data, list)
              IN  /\ IF to.ok
                     THEN /\ rel_matches' =
                                 Append(rel_matches,
                                        Match(Join(list, args.delimiter), to.value))
                          /\ stderr' = stderr
                     ELSE /\ rel_matches' = rel_matches
                          /\ Len(stderr') = Len(stderr) + 1
                  /\ pc' = "relative" /\ matches' = matches
                  /\ <<mi', ri'>> = IF ri < Len(args.relative_key)
                                    THEN <<mi, ri + 1>> ELSE <<mi + 1, 1>>
       /\ (pc = "relative" /\ Len(args.relative_key) > 0 /\ pc' # pc) =>
              /\ mi > Len(matches)
              /\ pc' = "output" /\ matches' = rel_matches
       /\ (pc = "output" /\ pc' # pc) => exit_code' = 0]_vars

\* A run with relative keys ended with exit code 0 after pairs that failed and
\* pairs that resolved.
C9_Witness ==
    /\ Finished /\ Len(args.relative_key) > 0
    /\ Len(stderr) >= 2 /\ Len(matches) >= 2

----------------------------------------------------------------------------
(* C10 *)

\* The first argument is no file and is taken as a key, the input being piped.
FileIsKey ==
    /\ Len(args.file) = 1 /\ ~env.is_file /\ args.file # Some(Stdin) /\ env.has_stdin

\* There is nothing to read: no file that exists, and no piped input.
NoInput == ~(Len(args.file) = 1 /\ env.is_file) /\ ~env.has_stdin

\* All the patterns given, the first argument among them when it is a key.
AllPatterns ==
    (IF FileIsKey THEN <<args.file[1]>> ELSE <<>>) \o args.keys \o args.key
    \o args.extended_keys \o args.value \o args.extended_values

\* An error of the run: no usable input, no pattern, an input that cannot be read
\* or is no JSON, a pattern that is no regex.
ErrorOccurs ==
    \/ NoInput
    \/ Len(AllPatterns) = 0
    \/ ~env.readable \/ ~env.content.valid
    \/ \E i \in 1..Len(AllPatterns) : ~RegexNew(AllPatterns[i]).ok

\* C10: a run ends with exit code 1 and an empty standard output exactly when an
\* error occurs; any other run ends with exit code 0, and one that found nothing
\* prints nothing, or the count 0 when the count is asked for.
C10_ExitCodes ==
    pc = "exit" =>
        IF ErrorOccurs
        THEN exit_code = 1 /\ stdout = <<>>
        ELSE /\ exit_code = 0
             /\ Len(matches) = 0 =>
                    stdout = IF args.count THEN <<Line("count", 0, <<>>, JNull)>>
                             ELSE <<>>

\* A run that ended with exit code 1 on a value pattern, after the key search.
C10_Witness == pc = "exit" /\ exit_code = 1 /\ visited > 0 /\ stdout = <<>>

----------------------------------------------------------------------------
(* C11 *)

\* The run is a key search: key patterns, no value pattern, no relative key.
KeySearch ==
    /\ Len(keys) + Len(args.extended_keys) > 0
    /\ Len(args.value) = 0 /\ Len(args.extended_values) = 0
    /\ Len(args.relative_key) = 0

\* Every node k times over, in the order of the nodes.
Repeated(nodes, k) == [i \in 1..(Len(nodes) * k) |-> nodes[((i - 1) \div k) + 1]]

\* The fields and elements of the document as it is written, parent before child,
\* the fields of an object in the order of the text.
WrittenNodes == NodesUnder(env.content.doc, <<>>, <<>>, args.delimiter)

\* s is a proper beginning of t.
ProperPrefix(s, t) == Len(s) < Len(t) /\ SubSeq(t, 1, Len(s)) = s

\* C11, as stated: the matches of a key search come in depth-first pre-order, the
\* fields of an object in the order they are written in the document, the elements
\* of an array by index.
C11_InsertionOrder ==
    (Finished /\ KeySearch) =>
        IsSubsequence(matches, MatchesOf(Repeated(WrittenNodes, Len(key_patterns))))

\* C11, amended: the matches of a key search come in depth-first pre-order, the
\* fields of an object in the order of their names, the elements of an array by
\* index.
C11_KeyOrder ==
    (Finished /\ KeySearch) =>
        IsSubsequence(matches, MatchesOf(Repeated(Nodes, Len(key_patterns))))

\* A finished key search over a document whose fields are not written in the order
\* of their names gave a match for a node, then one below its element 0, then one
\* below its element 1.
C11_Witness ==
    /\ Finished /\ KeySearch
    /\ data # env.content.doc
    /\ \E i, j, k \in 1..Len(matches) :
           LET top == Split(matches[i].key, args.delimiter)
               one == Split(matches[j].key, args.delimiter)
               two == Split(matches[k].key, args.delimiter)
           IN  /\ i < j /\ j < k
               /\ ProperPrefix(top \o <<<<"0">>>>, one)
               /\ ProperPrefix(top \o <<<<"1">>>>, two)

----------------------------------------------------------------------------
(* C12 *)

\* The run is a value search: value patterns, no key pattern, no relative key.
ValueSearch ==
    /\ Len(keys) = 0 /\ Len(args.extended_keys) = 0
    /\ Len(args.value) + Len(args.extended_values) > 0
    /\ Len(args.relative_key) = 0

\* The root and the nodes below it, parent before child.
AllNodes == <<[segs |-> <<>>, path |-> <<>>, field |-> FALSE, value |-> data]>> \o Nodes

Scalar(v) == v.t \in {"string", "number", "bool"}

RECURSIVE Flatten(_)
Flatten(seqs) == IF Len(seqs) = 0 THEN <<>> ELSE seqs[1] \o Flatten(Tail(seqs))

\* The path of a node: its segments from the root, the empty ones left out, joined.
FullPath(n) == Join(SelectSeq(n.segs, NonEmpty), args.delimiter)

\* One match, with the full path of the node and its value, for each value pattern
\* found in the text of a scalar; none for an object, an array or null.
LeafMatches(n) ==
    IF Scalar(n.value)
    THEN LET text == IF n.value.t = "string" THEN n.value.s ELSE ValueToString(n.value)
             found == SelectSeq(value_patterns, LAMBDA p : IsMatch(p, text))
         IN  [j \in 1..Len(found) |-> Match(FullPath(n), n.value)]
    ELSE <<>>

\* C12, as stated: the matches of a value search are, leaf by leaf in the order of
\* the walk, one per satisfied value pattern at each string, number or boolean, with
\* the full path from the root to the leaf and the leaf as value; objects, arrays
\* and nulls give none, and the leaves below objects and arrays are all reached.
C12_ScalarLeavesOnly ==
    (Finished /\ ValueSearch) =>
        matches = Flatten([i \in 1..Len(AllNodes) |-> LeafMatches(AllNodes[i])])

----------------------------------------------------------------------------
(* C13 *)

\* The key pattern texts of the run, the first argument among them when it is a key.
KeyTextsGiven ==
    (IF FileIsKey THEN <<args.file[1]>> ELSE <<>>) \o args.keys \o args.key
    \o args.extended_keys

ValueTextsGiven == args.value \o args.extended_values

SomeInvalid(texts) == \E i \in 1..Len(texts) : ~RegexNew(texts[i]).ok

\* The input was read and parsed: the run came to the patterns.
Loaded == ~NoInput /\ env.readable /\ env.content.valid

----------------------------------------------------------------------------
(* C14 *)

\* The run searches keys and values, and has no relative key.
BothSearch ==
    /\ Len(keys) + Len(args.extended_keys) > 0
    /\ Len(args.value) + Len(args.extended_values) > 0
    /\ Len(args.relative_key) = 0

\* The test search_keys applies for pattern p at node n.
Satisfied(p, n) ==
    IsMatch(p, n.path) \/ (n.field /\ Last(n.segs) = clean_pattern(p))

\* One match for each key pattern satisfied at the node, with the path of the node
\* and the whole of its value.
KeyMatchesAt(n) ==
    LET found == SelectSeq(key_patterns, LAMBDA p : Satisfied(p, n))
    IN  [j \in 1..Len(found) |-> Match(normalize_key(n.path, args.delimiter), n.value)]

\* One match for each value pattern found at a scalar, with the path the value
\* search gives the leaf.
ValueMatchesAt(n) ==
    IF Scalar(n.value)
    THEN LET text == IF n.value.t = "string" THEN n.value.s ELSE ValueToString(n.value)
             found == SelectSeq(value_patterns, LAMBDA p : IsMatch(p, text))
         IN  [j \in 1..Len(found) |->
                 Match(normalize_key(TrimEndMatches(n.path, args.delimiter),
                                     args.delimiter), n.value)]
    ELSE <<>>

\* The key matches, node by node in the order of the walk.
KeyWalk == Flatten([i \in 1..Len(Nodes) |-> KeyMatchesAt(Nodes[i])])

\* The value matches, node by node in the order of the walk.
ValueWalk == Flatten([i \in 1..Len(AllNodes) |-> ValueMatchesAt(AllNodes[i])])

\* C14, as stated: with key patterns and value patterns and no relative key, the
\* matches follow one walk of the tree: the matches of a node visited earlier come
\* before those of a node visited later, key matches and value matches alike.
C14_SingleWalk ==
    (Finished /\ BothSearch) =>
        matches = Flatten([i \in 1..Len(AllNodes) |->
                              KeyMatchesAt(AllNodes[i]) \o ValueMatchesAt(AllNodes[i])])

\* C14, amended: with key patterns and value patterns and no relative key, the
\* matches are those of a walk for the keys, in the order of that walk, and after
\* them those of a second walk for the values, in the order of that walk.
C14_KeysThenValues ==
    (Finished /\ BothSearch) => matches = KeyWalk \o ValueWalk

\* A finished search for keys and values found both, in an order that no single
\* walk of the tree gives.
C14_Witness ==
    /\ Finished /\ BothSearch
    /\ Len(KeyWalk) > 0 /\ Len(ValueWalk) > 0
    /\ matches # Flatten([i \in 1..Len(AllNodes) |->
                             KeyMatchesAt(AllNodes[i]) \o ValueMatchesAt(AllNodes[i])])

----------------------------------------------------------------------------
(* C15 *)

\* The node taken as an object field whose name is its last segment.
AsField(n) == [n EXCEPT !.field = TRUE]

\* C15, as stated: an array element gives a match for a key pattern exactly when an
\* object field named by its index in decimal, under the same parent path, would:
\* the matches of a key search are those of the same nodes all taken as fields.
C15_ElementsAsFields ==
    (Finished /\ KeySearch) =>
        matches = Flatten([i \in 1..Len(Nodes) |-> KeyMatchesAt(AsField(Nodes[i]))])

----------------------------------------------------------------------------
(* C16 *)

\* C16: in a key search every node gives one match for each key pattern that is
\* satisfied at it and none for the others, whatever matched at the nodes above it
\* or at the node itself: a node satisfying k patterns gives k matches with its path
\* and the whole of its value, and the nodes below a node that matched are tested
\* as all the others are.
C16_OnePerSatisfiedPattern ==
    (Finished /\ KeySearch) => matches = KeyWalk

\* A finished key search with several patterns gave two matches for one node and
\* then a match for a node below it.
C16_Witness ==
    /\ Finished /\ KeySearch /\ Len(key_patterns) >= 2
    /\ \E i, j \in 1..Len(matches) :
           /\ i + 1 < j
           /\ matches[i] = matches[i + 1]
           /\ ProperPrefix(Split(matches[i].key, args.delimiter),
                           Split(matches[j].key, args.delimiter))
           /\ Len(matches[i].value.kids) > 0

----------------------------------------------------------------------------
(* C17 *)

RECURSIVE Interleaved(_, _)
\* The pieces with the separator between each two of them.
Interleaved(pieces, sep) ==
    IF Len(pieces) <= 1 THEN pieces
    ELSE <<pieces[1], sep>> \o Interleaved(Tail(pieces), sep)

\* The tokens of a relative expression as C17 gives them: the chunks between the
\* path delimiters, each chunk cut wherever the relative delimiter occurs in it (the
\* relative delimiter being a token of its own), the empty tokens left out.
FineTokens(rel) ==
    LET chunks == Split(rel, args.delimiter)
        cut == [i \in 1..Len(chunks) |->
                   Interleaved(Split(chunks[i], args.relative_delimiter),
                               args.relative_delimiter)]
    IN  SelectSeq(Flatten(cut), NonEmpty)

\* C17, as stated: the pair is resolved from the segment list that the tokens of
\* the relative expression, cut at the path delimiter and then at the relative
\* delimiter and without the empty ones, give from the path of the match: "..b" is
\* a pop and then a push of b, and no empty segment is pushed.
C17_FineTokens ==
    [][AtPair =>
          ResolvesAs(apply_rel_parts(parse_key(matches[mi].key, args.delimiter),
                                     FineTokens(args.relative_key[ri]),
                                     args.relative_delimiter))]_vars

----------------------------------------------------------------------------
(* C18 *)

\* The node with the empty segments taken out of its candidate path.
Stripped(n) == [n EXCEPT !.path = normalize_key(@, args.delimiter)]

\* The path is segments that are not empty, joined by the delimiter.
NoEmptySegment(key) == key = Join(SelectSeq(Split(key, args.delimiter), NonEmpty),
                                  args.delimiter)

\* C18, as stated: the candidate path that the key patterns are tested against has
\* no empty segment (the matches of a key search are those of the stripped paths),
\* and every path that is printed is made of segments that are not empty.
C18_StrippedBeforeTest ==
    /\ (Finished /\ KeySearch) =>
           matches = Flatten([i \in 1..Len(Nodes) |-> KeyMatchesAt(Stripped(Nodes[i]))])
    /\ pc = "exit" =>
           \A i \in 1..Len(stdout) :
               stdout[i].kind = "match" => NoEmptySegment(stdout[i].key)

====
